---- MODULE Spec2Model ----
(***************************************************************************)
(* pyxf: drivers for interactive logic-programming engines (xsb, swipl,    *)
(* eclipse, flora2, des) over a pexpect session.                           *)
(*                                                                         *)
(* Text is a sequence of one-character strings.  The session's output      *)
(* stream is a sequence of items (echoed command, answer token, result     *)
(* record, answer tuple, prompt, error text, TAPI framing).  One action    *)
(* is one public call of a driver: it sends its command, the engine's      *)
(* response is appended to what the session has not consumed yet, and the  *)
(* call's expect() consumes the stream up to its match.                    *)
(***************************************************************************)
EXTENDS Integers, Sequences, FiniteSets, TLC

\* ------------------------------------------------------------- bounds
MaxOps == 2
MaxRecs == 2
MaxTuples == 2
MaxFlat == 6
MaxK == 3
MaxFacts == 2
\* the longest text given to the normalization of query()
MaxText == 4

\* ------------------------------------------------------------ dialects
Dialects == {"xsb", "swipl", "eclipse", "flora2", "des"}
TagDialects == {"xsb", "swipl", "eclipse"}

\* ---------------------------------------------------------------- text
Upper == {"X", "Y"}
Lower == {"p", "a", "b", "x", "y"}
Digit == {"1", "2"}
\* pieces of an identifier that stand for several identifier characters
Word == {"yes", "true", "Yes"}
Ident == Upper \cup Lower \cup Digit \cup {"_"} \cup Word
White == {" "}

\* str.strip(): drop leading and trailing whitespace
RECURSIVE LStrip(_)
LStrip(s) == IF s # <<>> /\ Head(s) \in White THEN LStrip(Tail(s)) ELSE s

RECURSIVE RStrip(_)
RStrip(s) ==
    IF s # <<>> /\ s[Len(s)] \in White THEN RStrip(SubSeq(s, 1, Len(s) - 1)) ELSE s

Strip(s) == RStrip(LStrip(s))

\* a variant of Normalize with a fault: the terminator is always appended
NormalizeAlwaysAppends(q) == Append(Strip(q), ".")

\* query = query.strip(); if query[-1] != '.': query += '.'
\* (defined for texts that are non-empty after the strip; query[-1] raises
\* IndexError otherwise, see Query)
Normalize(q) ==
    LET s == Strip(q) IN IF s[Len(s)] # "." THEN Append(s, ".") ELSE s

\* the length of the longest run of identifier characters of s from position i
RECURSIVE IdentRun(_, _)
IdentRun(s, i) == IF i <= Len(s) /\ s[i] \in Ident THEN 1 + IdentRun(s, i + 1) ELSE 0

\* var_re.findall(query): '[^a-zA-Z0-9_]([A-Z][a-zA-Z0-9_]*)', scanning from
\* position i; matches do not overlap and group 1 is returned
RECURSIVE VarFindallFrom(_, _)
VarFindallFrom(s, i) ==
    IF i + 1 > Len(s) THEN <<>>
    ELSE IF s[i] \notin Ident /\ s[i + 1] \in Upper
         THEN LET n == IdentRun(s, i + 1)
              IN <<SubSeq(s, i + 1, i + n)>> \o VarFindallFrom(s, i + n + 1)
         ELSE VarFindallFrom(s, i + 1)

VarFindall(s) == VarFindallFrom(s, 1)

\* fvar_re.findall(query): '[?][a-zA-Z0-9][a-zA-Z0-9_]*', the whole match
\* (the sigil included) is returned
RECURSIVE FvarFindallFrom(_, _)
FvarFindallFrom(s, i) ==
    IF i + 1 > Len(s) THEN <<>>
    ELSE IF s[i] = "?" /\ s[i + 1] \in (Ident \ {"_"})
         THEN LET n == IdentRun(s, i + 1)
              IN <<SubSeq(s, i, i + n)>> \o FvarFindallFrom(s, i + n + 1)
         ELSE FvarFindallFrom(s, i + 1)

FvarFindall(s) == FvarFindallFrom(s, 1)

\* the elements of l, each once, in the order of their first occurrence
RECURSIVE Dedup(_)
Dedup(l) ==
    IF l = <<>> THEN <<>>
    ELSE LET r == Dedup(SubSeq(l, 1, Len(l) - 1))
             x == l[Len(l)]
         IN IF \E i \in 1..Len(r) : r[i] = x THEN r ELSE Append(r, x)

\* a variant of OrderedKeys with a fault: repeated names are kept
OrderedKeysKeepsRepeats(l) == l

\* list(OrderedDict.fromkeys(lvars)): first-occurrence order
OrderedKeys(l) == Dedup(l)

\* the position of x in the sequence ord (0 when absent)
PosIn(ord, x) ==
    IF \E i \in 1..Len(ord) : ord[i] = x
    THEN CHOOSE i \in 1..Len(ord) : ord[i] = x
    ELSE 0

\* list(set(lvars)): the distinct elements in the set's iteration order,
\* which follows the string hashes of the running interpreter (ord)
RECURSIVE SortBy(_, _)
SortBy(S, ord) ==
    IF S = {} THEN <<>>
    ELSE LET m == CHOOSE x \in S : \A y \in S : PosIn(ord, x) <= PosIn(ord, y)
         IN <<m>> \o SortBy(S \ {m}, ord)

ListSet(l, ord) == SortBy({l[i] : i \in 1..Len(l)}, ord)

\* ------------------------------------------------------------ commands
\* A command sent with sendline(): what it is built from.
\*   load     "['" + module + "']."                      (text = module)
\*   restore  "/tapi /restore_ddb " + module             (text = module)
\*   plain    the normalized query itself                (text = query)
\*   printer  query[:-1] + ',' + one print directive per variable of vars,
\*            joined by ',' + ',nl,fail.'                (text = query[:-1])
\*   tapi     '/tapi ' + query                           (text = query)
NoCmd == [kind |-> "none", text |-> <<>>, vars |-> <<>>]
Cmd(kind, text, vars) == [kind |-> kind, text |-> text, vars |-> vars]

\* _printer(lvars, query)
Printer(lvars, query) == Cmd("printer", SubSeq(query, 1, Len(query) - 1), lvars)

\* the text of one print directive of _printer for the variable v: xsb and
\* swipl quote the name with doubled quotes, eclipse with escaped quotes
Directive(d, v) ==
    IF d = "eclipse"
    THEN <<"writeln( res('\\'">> \o v \o <<"\\'',">> \o v \o <<") )">>
    ELSE <<"writeln( res('''">> \o v \o <<"''',">> \o v \o <<") )">>

\* sep.join(elems)
RECURSIVE Join(_, _)
Join(elems, sep) ==
    IF elems = <<>> THEN <<>>
    ELSE IF Len(elems) = 1 THEN elems[1]
    ELSE elems[1] \o sep \o Join(Tail(elems), sep)

\* a variant of PrinterText with a fault: the terminator of the query is kept
PrinterTextKeepsDot(d, lvars, query) ==
    query \o <<",">>
      \o Join([i \in 1..Len(lvars) |-> Directive(d, lvars[i])], <<",">>)
      \o <<",nl,fail.">>

\* the text _printer returns: query[:-1] + ',' + ','.join(elems) + ',nl,fail.'
PrinterText(d, lvars, query) ==
    SubSeq(query, 1, Len(query) - 1) \o <<",">>
      \o Join([i \in 1..Len(lvars) |-> Directive(d, lvars[i])], <<",">>)
      \o <<",nl,fail.">>

\* ------------------------------------------------------- stream items
Item(t, cmd, name, vals) == [t |-> t, cmd |-> cmd, name |-> name, vals |-> vals]
Mark(t) == Item(t, NoCmd, <<>>, <<>>)
Echo(cmd) == Item("echo", cmd, <<>>, <<>>)
Tok(text) == Item("tok", NoCmd, text, <<>>)
Rec(name, val) == Item("rec", NoCmd, name, <<val>>)
Tuple(vals) == Item("tuple", NoCmd, <<>>, vals)

\* ------------------------------------------------------------- expect
\* The patterns of the module, by name:
\*   prompt   xsbprompt, swiprompt, eclipseprompt, flora2prompt, desprompt
\*   error    xsberror, swierror, eclipseerror, flora2error, deserror
\*   tprompt  destapiprompt        terror  destapierror
\*   tsuccess destapisuccess       tend    destapiend
Greedy(p) == p \in {"error", "terror"}
PatLen(p) == IF p \in {"tsuccess", "tend"} THEN 2 ELSE 1

MatchesAt(s, p, i) ==
    CASE p = "tsuccess" -> s[i].t = "succ" /\ i + 1 <= Len(s) /\ s[i + 1].t = "tprompt"
      [] p = "tend" -> s[i].t = "eot" /\ i + 1 <= Len(s) /\ s[i + 1].t = "tprompt"
      [] OTHER -> s[i].t = p

MinOf(S) == CHOOSE x \in S : \A y \in S : x <= y
MaxOf(S) == CHOOSE x \in S : \A y \in S : x >= y

\* engine.expect(pats) on the unconsumed stream s.  The match is the one that
\* starts first, the earlier pattern of the list winning a tie.  A pattern
\* ending in '.*' (compiled with DOTALL) ends where the data read so far
\* ends: at the matched text alone, or (more) at everything the engine has
\* written by then.  No match is pexpect.TIMEOUT: idx = -1, nothing consumed.
Expect(s, pats, more) ==
    LET hits == {i \in 1..Len(s) : \E k \in 1..Len(pats) : MatchesAt(s, pats[k], i)}
    IN IF hits = {}
       THEN [idx |-> -1, start |-> 0, before |-> s, after |-> <<Mark("TIMEOUT")>>,
             rest |-> s]
       ELSE LET i == MinOf(hits)
                k == MinOf({j \in 1..Len(pats) : MatchesAt(s, pats[j], i)})
                e == IF Greedy(pats[k])
                     THEN (IF more THEN Len(s) ELSE i)
                     ELSE i + PatLen(pats[k]) - 1
            IN [idx |-> k - 1, start |-> i, before |-> SubSeq(s, 1, i - 1),
                after |-> SubSeq(s, i, e), rest |-> SubSeq(s, e + 1, Len(s))]

\* ------------------------------------------------------------ outcomes
\* What a call gives its caller: kind is "none" (returns None), "bool",
\* "list", an exception class of the module, "TIMEOUT" (pexpect.TIMEOUT,
\* which no method catches) or "IndexError".
Outcome(kind, b, sols, frag) == [kind |-> kind, b |-> b, sols |-> sols, frag |-> frag]
Returns == Outcome("none", FALSE, <<>>, <<>>)
Bool(b) == Outcome("bool", b, <<>>, <<>>)
List(sols) == Outcome("list", FALSE, sols, <<>>)
Raises(kind, frag) == Outcome(kind, FALSE, <<>>, frag)

\* ------------------------------------------------- reading the capture
\* x in str(engine.before), for a text x: the text of an item is the text of
\* the echoed command or of the answer token it stands for
Contains(text, sub) ==
    \E i \in 1..(Len(text) - Len(sub) + 1) : SubSeq(text, i, i + Len(sub) - 1) = sub

ItemText(it) ==
    CASE it.t = "echo" -> it.cmd.text
      [] it.t = "tok" -> it.name
      [] OTHER -> <<>>

InCapture(sub, capture) == \E i \in 1..Len(capture) : Contains(ItemText(capture[i]), sub)

\* dict(pairs) for a list of (key, value) pairs: the last pair of a key wins
Dict(pairs) ==
    [n \in {pairs[i][1] : i \in 1..Len(pairs)} |->
        pairs[MaxOf({j \in 1..Len(pairs) : pairs[j][1] = n})][2]]

\* a variant of RegroupLoop with a fault: temp is not emptied after a group
RECURSIVE RegroupLoopKeepsTemp(_, _, _, _, _)
RegroupLoopKeepsTemp(res, k, counter, temp, results) ==
    IF counter >= Len(res) THEN results
    ELSE LET c == counter + 1
             t == Append(temp, res[c])
         IN IF c % k = 0
            THEN RegroupLoopKeepsTemp(res, k, c, t, Append(results, Dict(t)))
            ELSE RegroupLoopKeepsTemp(res, k, c, t, results)

\* the loop of query() over res: counter, temp, results
RECURSIVE RegroupLoop(_, _, _, _, _)
RegroupLoop(res, k, counter, temp, results) ==
    IF counter >= Len(res) THEN results
    ELSE LET c == counter + 1
             t == Append(temp, res[c])
         IN IF c % k = 0
            THEN RegroupLoop(res, k, c, <<>>, Append(results, Dict(t)))
            ELSE RegroupLoop(res, k, c, t, results)

Regroup(res, k) == RegroupLoop(res, k, 0, <<>>, <<>>)

\* the (name, value) groups a result pattern finds in a capture: res_re and
\* fres_re both capture the name without quotes or sigil, and the value
RECURSIVE Findall(_)
Findall(capture) ==
    IF capture = <<>> THEN <<>>
    ELSE LET it == Head(capture)
         IN (IF it.t = "rec" THEN <<(<<it.name, it.vals[1]>>)>> ELSE <<>>)
            \o Findall(Tail(capture))

\* state.split(',nl,fail.\n')[-1]: what follows the last ',nl,fail.' that a
\* bare '\n' follows; the echo of a compiled query ends with the marker and
\* the line ending the terminal gives it
EchoesMarker(it, lineEnd) == it.t = "echo" /\ it.cmd.kind = "printer" /\ lineEnd = "lf"

AfterLastMarker(capture, lineEnd) ==
    LET at == {i \in 1..Len(capture) : EchoesMarker(capture[i], lineEnd)}
    IN IF at = {} THEN capture
       ELSE SubSeq(capture, MaxOf(at) + 1, Len(capture))

\* state.split('$eot'): the pieces between the end-of-transmission marks
RECURSIVE SplitEot(_, _)
SplitEot(capture, piece) ==
    IF capture = <<>> THEN <<piece>>
    ELSE IF Head(capture).t = "eot"
         THEN <<piece>> \o SplitEot(Tail(capture), <<>>)
         ELSE SplitEot(Tail(capture), Append(piece, Head(capture)))

\* j[1:-1]
Slice1(j) == SubSeq(j, 2, Len(j) - 1)

\* a variant of DictZip with a fault: the values are taken from the last
DictZipFromTheEnd(lvars, vals) ==
    LET m == MinOf({Len(lvars), Len(vals)})
    IN [n \in {lvars[i] : i \in 1..m} |->
          vals[Len(vals) + 1 - MaxOf({i \in 1..m : lvars[i] = n})]]

\* dict(zip(lvars, i))
DictZip(lvars, vals) ==
    LET m == MinOf({Len(lvars), Len(vals)})
    IN [n \in {lvars[i] : i \in 1..m} |-> vals[MaxOf({i \in 1..m : lvars[i] = n})]]

\* state.split('$\r\n')[1:], each block split into its lines without the
\* last, each line without its first and last character
RECURSIVE TapiRows(_)
TapiRows(piece) ==
    IF piece = <<>> THEN <<>>
    ELSE LET it == Head(piece)
         IN (IF it.t = "tuple"
             THEN <<[i \in 1..Len(it.vals) |-> Slice1(it.vals[i])]>>
             ELSE <<>>)
            \o TapiRows(Tail(piece))

\* -------------------------------------------------------------- state
VARIABLES
    dialect,    \* the driver class of this session
    lineEnd,    \* "lf" or "crlf": the line ending the terminal echoes
    hashOrder,  \* the iteration order of a set of names in this interpreter
    stream,     \* engine output the session has not consumed yet
    before,     \* engine.before
    after,      \* engine.after
    call,       \* the last public call: arguments, command, response, outcome
    prev,       \* the call before it, in short
    nops,       \* calls made so far
    run,        \* the call in progress, step by step (the step-level view)
    calc        \* the last application of a pure function: arguments, result

vars == <<dialect, lineEnd, hashOrder, stream, before, after, call, prev, nops,
          run, calc>>

\* no call in progress
NoRun == [pc |-> "ready", op |-> "none", arg |-> <<>>, lvars |-> <<>>, todo |-> <<>>,
          sent |-> <<>>, resps |-> <<>>, caps |-> <<>>, log |-> <<>>, pending |-> 0,
          out |-> [kind |-> "none", b |-> FALSE, sols |-> <<>>, frag |-> <<>>]]

\* no function applied
NoCalc == [fn |-> "none", d |-> "none", k |-> 0, res |-> <<>>, text |-> <<>>,
           names |-> <<>>, out |-> <<>>]

\* ------------------------------------------------------ the five drivers
\* the answer token the zero-variable path looks for, and the other answer
AnswerToken(d) ==
    CASE d = "xsb" -> <<"yes">>
      [] d = "swipl" -> <<"true">>
      [] d \in {"eclipse", "flora2"} -> <<"Yes">>
      [] d = "des" -> <<"0", " tuples computed">>

OtherToken(d) ==
    CASE d = "xsb" -> <<"no">>
      [] d = "swipl" -> <<"false">>
      [] d \in {"eclipse", "flora2"} -> <<"No">>
      [] d = "des" -> <<"1", " tuple computed">>

\* lvars of query(): findall, then list(set(..)) or OrderedDict.fromkeys
ExtractVariables(d, query, ord) ==
    CASE d = "flora2" -> ListSet(FvarFindall(query), ord)
      [] d = "des" -> OrderedKeys(VarFindall(query))
      [] OTHER -> ListSet(VarFindall(query), ord)

\* the command query() sends
QueryCmd(d, query, lvars) ==
    IF lvars = <<>> THEN Cmd("plain", query, <<>>)
    ELSE CASE d \in TagDialects -> Printer(lvars, query)
           [] d = "flora2" -> Cmd("plain", query, <<>>)
           [] d = "des" -> Cmd("tapi", query, <<>>)

\* the pattern list of the expect() of query()
QueryPats(d, lvars) ==
    IF lvars = <<>> THEN <<"prompt", "error">>
    ELSE IF d = "des" THEN <<"terror", "tprompt">> ELSE <<"error", "prompt">>

\* a variant of YesNoOutcome with a fault: a negative answer is returned as
\* an empty list of solutions
YesNoOutcomeEmptyList(d, r) ==
    IF r.idx = -1 THEN Raises("TIMEOUT", <<>>)
    ELSE IF r.idx = 1 THEN Raises("QueryError", r.after)
    ELSE IF (d = "des") # InCapture(AnswerToken(d), r.before) THEN Bool(TRUE)
    ELSE List(<<>>)

\* the zero-variable path after its expect()
YesNoOutcome(d, r) ==
    IF r.idx = -1 THEN Raises("TIMEOUT", <<>>)
    ELSE IF r.idx = 1 THEN Raises("QueryError", r.after)
    ELSE IF d = "des" THEN Bool(~InCapture(AnswerToken(d), r.before))
    ELSE Bool(InCapture(AnswerToken(d), r.before))

\* a variant of TagOutcome without the `if results == []: return False`
TagOutcomeKeepsEmpty(r, lvars, le) ==
    IF r.idx = -1 THEN Raises("TIMEOUT", <<>>)
    ELSE IF r.idx = 0 THEN Raises("QueryError", r.after)
    ELSE List(Regroup(Findall(AfterLastMarker(r.before, le)), Len(lvars)))

\* xsb, swipl, eclipse: the variable path after its expect()
TagOutcome(r, lvars, le) ==
    IF r.idx = -1 THEN Raises("TIMEOUT", <<>>)
    ELSE IF r.idx = 0 THEN Raises("QueryError", r.after)
    ELSE LET results == Regroup(Findall(AfterLastMarker(r.before, le)), Len(lvars))
         IN IF results = <<>> THEN Bool(FALSE) ELSE List(results)

\* flora2: the variable path after its expect()
Flora2Outcome(r, lvars) ==
    IF r.idx = -1 THEN Raises("TIMEOUT", <<>>)
    ELSE IF r.idx = 0 THEN Raises("QueryError", r.after)
    ELSE List(Regroup(Findall(r.before), Len(lvars)))

\* des: the variable path after its expect()
DesOutcome(r, lvars, query) ==
    IF r.idx = -1 THEN Raises("TIMEOUT", <<>>)
    ELSE IF r.idx = 0 THEN Raises("QueryError", r.after)
    ELSE IF Contains(query, <<"/assert">>) THEN Bool(TRUE)
    ELSE LET pieces == SplitEot(r.before, <<>>)
             processing == \E i \in 1..Len(pieces[1]) : pieces[1][i].t = "proc"
         IN IF processing /\ Len(pieces) < 2 THEN Raises("IndexError", <<>>)
            ELSE LET rows == TapiRows(IF processing THEN pieces[2] ELSE pieces[1])
                 IN List([i \in 1..Len(rows) |-> DictZip(lvars, rows[i])])

QueryOutcome(d, r, lvars, query, le) ==
    IF lvars = <<>> THEN YesNoOutcome(d, r)
    ELSE CASE d \in TagDialects -> TagOutcome(r, lvars, le)
           [] d = "flora2" -> Flora2Outcome(r, lvars)
           [] d = "des" -> DesOutcome(r, lvars, query)

\* the command load() sends and the pattern list of its expect()
LoadCmd(d, module) == Cmd(IF d = "des" THEN "restore" ELSE "load", module, <<>>)

LoadPats(d) ==
    CASE d \in {"xsb", "flora2"} -> <<"prompt", "error">>
      [] d \in {"swipl", "eclipse"} -> <<"error", "prompt">>
      [] d = "des" -> <<"tsuccess", "tend", "terror">>

\* load() after its expect(): des.load warns on index 1 and returns
LoadOutcome(d, r) ==
    IF r.idx = -1 THEN Raises("TIMEOUT", <<>>)
    ELSE CASE d \in {"xsb", "flora2"} ->
                IF r.idx = 1 THEN Raises("CompileError", r.after) ELSE Returns
           [] d \in {"swipl", "eclipse"} ->
                IF r.idx = 0 THEN Raises("CompileError", r.after) ELSE Returns
           [] d = "des" ->
                IF r.idx = 1 THEN Outcome("none", FALSE, <<>>, r.after) ELSE Returns

\* ------------------------------------------------------------ the engine
\* The engine is the environment: what it writes in response to a command is
\* drawn from the texts below.  It prints records for the variables it was
\* asked for, in the order asked, with any values and in any number; it may
\* end with its prompt, with an error text and then its prompt, or write no
\* prompt at all within the timeout.
Values == {<<"a">>, <<"b">>}
RawValues == {<<"'", "a", "'">>, <<"1", "2">>}

StripSigil(name) == IF name # <<>> /\ Head(name) = "?" THEN Tail(name) ELSE name

\* the names the engine prints bindings for
PrintedNames(d, cmd) ==
    IF cmd.kind = "printer" THEN cmd.vars
    ELSE LET vs == Dedup(FvarFindall(cmd.text))
         IN [i \in 1..Len(vs) |-> StripSigil(vs[i])]

\* the values of the records of one response, in emission order
ValueSeqs == {<<>>} \cup UNION {[1..n -> Values] : n \in 1..MaxRecs}

\* the records the engine prints for the values vs: the i-th is for the
\* i-th name asked for, cyclically
Records(names, vs) ==
    [i \in 1..Len(vs) |-> Rec(names[((i - 1) % Len(names)) + 1], vs[i])]

\* the answer tuples of one TAPI response: one, two or three raw values each
TupleItems == {Tuple(<<v>>) : v \in RawValues} \cup
              {Tuple(p) : p \in {q \in RawValues \X RawValues : q[1] # q[2]}} \cup
              {Tuple(<<(<<"'", "a", "'">>), (<<"1", "2">>), (<<"'", "a", "'">>)>>)}

TupleSeqs == {<<>>} \cup UNION {[1..n -> TupleItems] : n \in 1..MaxTuples}

EndOk == <<Mark("prompt")>>
EndError == <<Mark("error"), Mark("prompt")>>
EndSilent == <<>>
Ends == {EndOk, EndError, EndSilent}

LoadResponses(d) ==
    IF d = "des"
    THEN {<<Mark("succ"), Mark("tprompt")>>, <<Mark("eot"), Mark("tprompt")>>,
          <<Mark("terror"), Mark("tprompt")>>, <<>>}
    ELSE Ends

YesNoResponses(d) ==
    {t \o e : t \in {<<>>, <<Tok(AnswerToken(d))>>, <<Tok(OtherToken(d))>>}, e \in Ends}

\* a /tapi /assert is answered with an acknowledgement or an error
AssertResponses ==
    {<<Mark("terror"), Mark("tprompt")>>, <<Mark("succ"), Mark("tprompt")>>, <<>>}

TapiResponses ==
    {<<Mark("terror"), Mark("tprompt")>>, <<Mark("proc"), Mark("tprompt")>>} \cup
    {pre \o ts \o <<Mark("eot")>> \o e :
        pre \in {<<>>, <<Mark("proc"), Mark("eot")>>},
        ts \in TupleSeqs, e \in {<<Mark("tprompt")>>, <<>>}}

\* ------------------------------------------------------------- inputs
Modules == {<<"m">>, <<"n">>}

PrologQueries == {
    <<"p", "(", "a", ")">>,
    <<"X", "=", "a">>,
    <<" ", "p", "(", "X", ")", ".">>,
    <<"p", "(", "X", ",", "Y", ",", "X", ")">>}

Flora2Queries == {
    <<"a", "[", "p", "]">>,
    <<"?", "x", "[", "p", "]", ".">>,
    <<"?", "x", "[", "?", "y", ",", "?", "x", "]">>}

\* a rule asserted through the query interface of des
DesQueries == PrologQueries \cup {<<"/assert", " ", "p", "(", "X", ")">>}

\* a text with nothing but whitespace
Blank == <<" ">>

\* a query without variables whose text holds the answer token of the
\* dialect: ayes(a), atrue(a), aYes(a), and for des p('0 tuples computed')
TokenQuery(d) ==
    IF d = "des" THEN <<"p", "(", "'">> \o AnswerToken(d) \o <<"'", ")">>
    ELSE <<"a">> \o AnswerToken(d) \o <<"(", "a", ")">>

Queries(d) ==
    {<<>>, Blank, TokenQuery(d)} \cup CASE d = "flora2" -> Flora2Queries
                   [] d = "des" -> DesQueries
                   [] OTHER -> PrologQueries

NameOrders(d) ==
    CASE d \in TagDialects -> {<<(<<"X">>), (<<"Y">>)>>, <<(<<"Y">>), (<<"X">>)>>}
      [] d = "flora2" -> {<<(<<"?", "x">>), (<<"?", "y">>)>>, <<(<<"?", "y">>), (<<"?", "x">>)>>}
      [] d = "des" -> {<<>>}

LineEnds(d) == IF d \in TagDialects THEN {"lf", "crlf"} ELSE {"crlf"}

\* ------------------------------------------------------------- actions
NoCall == [op |-> "init", arg |-> <<>>, lvars |-> <<>>, sent |-> <<>>, resp |-> <<>>,
           stale |-> 0, start |-> 0, idx |-> 0, out |-> Returns]

Short(c) == [op |-> c.op, arg |-> c.arg, lvars |-> c.lvars, kind |-> c.out.kind,
             resp |-> c.resp]

\* the constructor: the engine is spawned and its first prompt is matched
Init ==
    /\ dialect \in Dialects
    /\ lineEnd \in LineEnds(dialect)
    /\ hashOrder \in NameOrders(dialect)
    /\ stream = <<>>
    /\ before = <<>>
    /\ after = <<Mark("prompt")>>
    /\ call = NoCall
    /\ prev = Short(NoCall)
    /\ nops = 0
    /\ run = NoRun
    /\ calc = NoCalc

\* the number of result records and answer tuples in a text
RECURSIVE Results(_)
Results(s) ==
    IF s = <<>> THEN 0
    ELSE (IF Head(s).t \in {"rec", "tuple"} THEN 1 ELSE 0) + Results(Tail(s))

\* one sendline(cmd) and one expect(pats): the echo of the command and the
\* engine's response follow what is still unconsumed
Exchange(op, arg, lvars, cmd, resp, r, out) ==
    /\ stream' = r.rest
    /\ before' = r.before
    /\ after' = r.after
    /\ call' = [op |-> op, arg |-> arg, lvars |-> lvars, sent |-> <<cmd>>, resp |-> resp,
                stale |-> Len(stream), start |-> r.start, idx |-> r.idx, out |-> out]
    /\ prev' = Short(call)
    /\ nops' = nops + 1
    /\ UNCHANGED <<dialect, lineEnd, hashOrder, run, calc>>

\* the ways the expect() of a call can end on the text s: a '.*' match ends
\* with the data read so far, which is a matter of timing
Expects(s, pats) ==
    LET r == Expect(s, pats, FALSE)
    IN IF r.idx >= 0 /\ Greedy(pats[r.idx + 1]) /\ r.start < Len(s)
       THEN {r, Expect(s, pats, TRUE)}
       ELSE {r}

\* load(module)
Load(d) ==
    /\ dialect = d
    /\ nops < MaxOps
    /\ \E module \in Modules, resp \in LoadResponses(d) :
         LET cmd == LoadCmd(d, module)
         IN \E r \in Expects(stream \o <<Echo(cmd)>> \o resp, LoadPats(d)) :
              Exchange("load", module, <<>>, cmd, resp, r, LoadOutcome(d, r))

\* what the engine may write in response to the command of a query
QueryResponses(d, cmd, lvars) ==
    IF lvars = <<>> THEN YesNoResponses(d)
    ELSE IF d = "des"
         THEN (IF Contains(cmd.text, <<"/assert">>) THEN AssertResponses ELSE TapiResponses)
    ELSE LET names == PrintedNames(d, cmd)
         IN {Records(names, vs) \o e : vs \in ValueSeqs, e \in Ends}

\* a variant of QueryBlank with a fault: the text is sent before query[-1]
\* is looked at
QueryBlankSendsFirst(text) ==
    /\ stream' = stream \o <<Echo(Cmd("plain", text, <<>>))>>
    /\ call' = [NoCall EXCEPT !.op = "query", !.arg = text,
                              !.sent = <<Cmd("plain", text, <<>>)>>,
                              !.stale = Len(stream),
                              !.out = Raises("IndexError", <<>>)]
    /\ prev' = Short(call)
    /\ nops' = nops + 1
    /\ UNCHANGED <<dialect, lineEnd, hashOrder, before, after, run, calc>>

\* query(query) on a text that is empty after the strip: query[-1] raises
\* IndexError, before anything is sent
QueryBlank(text) ==
    /\ call' = [NoCall EXCEPT !.op = "query", !.arg = text,
                              !.stale = Len(stream),
                              !.out = Raises("IndexError", <<>>)]
    /\ prev' = Short(call)
    /\ nops' = nops + 1
    /\ UNCHANGED <<dialect, lineEnd, hashOrder, stream, before, after, run, calc>>

\* query(query)
Query(d) ==
    /\ dialect = d
    /\ nops < MaxOps
    /\ \E text \in Queries(d) :
         IF Strip(text) = <<>>
         THEN QueryBlank(text)
         ELSE LET query == Normalize(text)
                  lvars == ExtractVariables(d, query, hashOrder)
                  cmd == QueryCmd(d, query, lvars)
              IN \E resp \in QueryResponses(d, cmd, lvars) :
                   /\ Results(stream) + Results(resp) <= MaxRecs
                   /\ \E r \in Expects(stream \o <<Echo(cmd)>> \o resp, QueryPats(d, lvars)) :
                        Exchange("query", text, lvars, cmd, resp, r,
                                 QueryOutcome(d, r, lvars, query, lineEnd))

XsbLoad == Load("xsb")
XsbQuery == Query("xsb")
SwiplLoad == Load("swipl")
SwiplQuery == Query("swipl")
EclipseLoad == Load("eclipse")
EclipseQuery == Query("eclipse")
Flora2Load == Load("flora2")
Flora2Query == Query("flora2")
DesLoad == Load("des")
DesQuery == Query("des")

Next ==
    \/ XsbLoad \/ XsbQuery
    \/ SwiplLoad \/ SwiplQuery
    \/ EclipseLoad \/ EclipseQuery
    \/ Flora2Load \/ Flora2Query
    \/ DesLoad \/ DesQuery

Spec == Init /\ [][Next]_vars

\* ------------------------------------------------- the pure functions
\* The regrouping loop and _printer, applied to arguments of their own.
RecordPairs == {<<n, v>> : n \in {<<"X">>, <<"Y">>}, v \in Values}
FlatRecords == UNION {[1..n -> RecordPairs] : n \in 0..MaxFlat}
NameLists == UNION {[1..n -> {<<"X">>, <<"Y">>}] : n \in 1..MaxK}
NormalQueries == {Normalize(q) : q \in PrologQueries}

FunctionInit ==
    /\ dialect = "xsb"
    /\ lineEnd = "lf"
    /\ hashOrder = <<>>
    /\ stream = <<>>
    /\ before = <<>>
    /\ after = <<>>
    /\ call = NoCall
    /\ prev = Short(NoCall)
    /\ nops = 0
    /\ run = NoRun
    /\ calc = NoCalc

\* the loop of query() over a flat list res with len(lvars) = k
ApplyRegroup ==
    /\ calc = NoCalc
    /\ \E k \in 1..MaxK, res \in FlatRecords :
         calc' = [NoCalc EXCEPT !.fn = "regroup", !.k = k, !.res = res,
                                !.out = Regroup(res, k)]
    /\ UNCHANGED <<dialect, lineEnd, hashOrder, stream, before, after, call, prev,
                   nops, run>>

\* _printer(lvars, query) of xsb, swipl and eclipse
ApplyPrinter ==
    /\ calc = NoCalc
    /\ \E d \in TagDialects, lvars \in NameLists, query \in NormalQueries :
         calc' = [NoCalc EXCEPT !.fn = "printer", !.d = d, !.k = Len(lvars),
                                !.names = lvars, !.text = query,
                                !.out = PrinterText(d, lvars, query)]
    /\ UNCHANGED <<dialect, lineEnd, hashOrder, stream, before, after, call, prev,
                   nops, run>>

\* the texts given to the first two statements of query(): any mix of
\* blanks, terminators and a letter, the all-blank texts included
QueryTexts == UNION {[1..n -> {" ", ".", "p"}] : n \in 1..MaxText}

\* the first two statements of query(), and the same statements applied to
\* the text they gave: out is the normalized text, or empty when query[-1]
\* raised IndexError (a normalized text is never empty); res is the second
\* normalization
ApplyNormalize ==
    /\ calc = NoCalc
    /\ \E text \in QueryTexts :
         calc' = IF Strip(text) = <<>>
                 THEN [NoCalc EXCEPT !.fn = "normalize", !.text = text]
                 ELSE [NoCalc EXCEPT !.fn = "normalize", !.text = text,
                                     !.out = Normalize(text),
                                     !.res = Normalize(Normalize(text))]
    /\ UNCHANGED <<dialect, lineEnd, hashOrder, stream, before, after, call, prev,
                   nops, run>>

FunctionNext == ApplyRegroup \/ ApplyPrinter \/ ApplyNormalize

FunctionSpec == FunctionInit /\ [][FunctionNext]_vars

\* ------------------------------------------------- the calls, by steps
\* The same drivers seen one sendline() or expect() at a time, from the
\* constructor on: run.pc is where the running method stands ("spawn",
\* "send", "wait"), or "ready" between calls, or "dead" when the constructor
\* raised.  run.todo is what the method has still to send if nothing stops
\* it, run.log the sends and waits it made, run.pending the commands sent on
\* the session and not yet waited for.

\* flora2.addfacts: command = 'insert{' + f + '}.'
InsertCmd(f) == Cmd("insert", f, <<>>)
\* flora2.__init__ with expert: 'expert{yes}.'
ExpertCmd == Cmd("expert", <<>>, <<>>)
\* des.connect: '/tapi /open_db dsn' + " user('..')" + " password('..')", the
\* last two only for a non-empty username, password
ConnectCmd(dsn, username, password) ==
    Cmd("open_db",
        dsn \o (IF username # <<>> THEN <<" user('">> \o username \o <<"')">> ELSE <<>>)
            \o (IF password # <<>> THEN <<" password('">> \o password \o <<"')">> ELSE <<>>),
        <<>>)
\* des.command: cmd + ' ' + args
CommandCmd(cmd, args) == Cmd("command", cmd \o <<" ">> \o args, <<>>)

\* res.decode('utf8') of a capture: fails on bytes that are not UTF-8
ValidUtf8(capture) == \A i \in 1..Len(capture) : capture[i].t # "bytes"
Decode(capture) ==
    IF ValidUtf8(capture) THEN Outcome("text", FALSE, <<>>, capture)
    ELSE Raises("UnicodeDecodeError", <<>>)

\* the pattern list of the expect() the method is at
StepPats(d, op, lvars, first) ==
    CASE op = "init" -> IF first THEN <<"prompt">> ELSE <<"prompt", "error">>
      [] op = "load" -> LoadPats(d)
      [] op = "query" -> QueryPats(d, lvars)
      [] op = "addfacts" -> <<"prompt", "error">>
      [] op = "connect" -> <<"tsuccess", "terror">>
      [] op = "command" -> <<"prompt", "tprompt", "error">>

\* __init__ after an expect(): every pexpect exception inside the try block
\* becomes ExecutableNotFound; eclipse waits outside its try block
InitOutcome(d, r, first) ==
    IF r.idx = -1
    THEN (IF d = "eclipse" THEN Raises("TIMEOUT", <<>>)
          ELSE Raises("ExecutableNotFound", <<>>))
    ELSE IF ~first /\ r.idx = 1 THEN Raises("CompileError", r.after)
    ELSE Returns

\* one round of addfacts after its expect()
AddfactsOutcome(r) ==
    IF r.idx = -1 THEN Raises("TIMEOUT", <<>>)
    ELSE IF r.idx = 1 THEN Raises("FactError", r.after)
    ELSE IF ~InCapture(<<"Yes">>, r.before) THEN Raises("FactError", r.after)
    ELSE Returns

\* connect after its expect()
ConnectOutcome(r) ==
    IF r.idx = -1 THEN Raises("TIMEOUT", <<>>)
    ELSE IF r.idx = 1 THEN Raises("CompileError", r.after)
    ELSE Returns

\* a variant of CommandOutcome with a fault: the captured text is stripped of
\* the echoed command before it is returned
CommandOutcomeDropsEcho(r) ==
    IF r.idx = -1 THEN Raises("TIMEOUT", <<>>)
    ELSE IF r.idx = 2 THEN Raises("CompileError", r.after)
    ELSE Decode(SelectSeq(r.before, LAMBDA it : it.t # "echo"))

\* command after its expect()
CommandOutcome(r) ==
    IF r.idx = -1 THEN Raises("TIMEOUT", <<>>)
    ELSE IF r.idx = 2 THEN Raises("CompileError", r.after)
    ELSE Decode(r.before)

\* what the method does with the result r of its expect(): kind "none" is
\* "nothing raised, nothing returned yet"
WaitOutcome(d, r) ==
    CASE run.op = "init" -> InitOutcome(d, r, run.sent = <<>>)
      [] run.op = "load" -> LoadOutcome(d, r)
      [] run.op = "query" -> QueryOutcome(d, r, run.lvars, Normalize(run.arg), lineEnd)
      [] run.op = "addfacts" -> AddfactsOutcome(r)
      [] run.op = "connect" -> ConnectOutcome(r)
      [] run.op = "command" -> CommandOutcome(r)

\* a variant of PcAfterSend with a fault: a method with more to send sends
\* on without waiting
PcAfterSendNoWait(todo) == IF todo # <<>> THEN "send" ELSE "wait"

\* where the method stands after a sendline(): at its expect()
PcAfterSend(todo) == "wait"

\* a variant of PcAfterWait with a fault: the method ends after its first
\* expect() whatever is left to send
PcAfterWaitEndsEarly(op, out, todo) ==
    IF op = "init" /\ out.kind # "none" THEN "dead" ELSE "ready"

\* a variant of PcAfterWait with a fault: an expect() that timed out is made
\* again
PcAfterWaitRetries(op, out, todo) ==
    IF out.kind = "TIMEOUT" THEN "wait"
    ELSE IF out.kind = "none" /\ todo # <<>> THEN "send"
    ELSE IF op = "init" /\ out.kind # "none" THEN "dead"
    ELSE "ready"

\* where the method stands after an expect(): at the next sendline() when
\* nothing was raised and something is left to send, else it has ended
PcAfterWait(op, out, todo) ==
    IF out.kind = "none" /\ todo # <<>> THEN "send"
    ELSE IF op = "init" /\ out.kind # "none" THEN "dead"
    ELSE "ready"

\* what the caller passes
StepQueries(d) ==
    {Blank, <<"p", "(", "a", ")">>,
     IF d = "flora2" THEN <<"?", "x", "[", "p", "]", ".">> ELSE <<" ", "p", "(", "X", ")", ".">>}
Facts == {<<"a", "[", "p", "]">>, <<"Yes", "[", "p", "]">>}
FactLists == UNION {[1..n -> Facts] : n \in 0..MaxFacts}
Credentials == {<<>>, <<"u">>}
CommandArgs == {<<>>, <<"p">>}

\* what the engine writes when it starts, and in response to a command
SpawnBanners == {EndOk, EndSilent}
CommandResponses ==
    {<<Tok(<<"ok">>)>> \o EndOk, <<Mark("bytes")>> \o EndOk,
     <<Tok(<<"ok">>), Mark("tprompt")>>, EndError, EndSilent}
ConnectResponses ==
    {<<Mark("succ"), Mark("tprompt")>>, <<Mark("terror"), Mark("tprompt")>>, <<>>}
StepResponses(d, op, cmd, lvars) ==
    CASE op = "init" -> Ends
      [] op = "load" -> LoadResponses(d)
      [] op = "query" -> {resp \in QueryResponses(d, cmd, lvars) : Results(resp) <= 1}
      [] op = "addfacts" -> YesNoResponses(d)
      [] op = "connect" -> ConnectResponses
      [] op = "command" -> CommandResponses

\* the constructor is entered: flora2 with or without expert.  The line
\* ending and the set order bear on what a query returns, not on its steps:
\* one of each is taken
StepInit ==
    /\ dialect \in Dialects
    /\ lineEnd = "crlf"
    /\ hashOrder = CHOOSE o \in NameOrders(dialect) : TRUE
    /\ stream = <<>>
    /\ before = <<>>
    /\ after = <<>>
    /\ call = NoCall
    /\ prev = Short(NoCall)
    /\ nops = 0
    /\ calc = NoCalc
    /\ run \in {[NoRun EXCEPT !.pc = "spawn", !.op = "init", !.todo = t] :
                   t \in IF dialect = "flora2" THEN {<<>>, <<ExpertCmd>>} ELSE {<<>>}}

\* px.spawn(path + ' ' + args, timeout=5): raises a pexpect exception, or
\* starts the engine
Spawn ==
    /\ run.pc = "spawn"
    /\ \/ /\ run' = [run EXCEPT !.pc = "dead",
                                  !.out = Raises("ExecutableNotFound", <<>>)]
          /\ UNCHANGED stream
       \/ \E banner \in SpawnBanners :
            /\ stream' = banner
            /\ run' = [run EXCEPT !.pc = "wait"]
    /\ UNCHANGED <<dialect, lineEnd, hashOrder, before, after, call, prev, nops, calc>>

\* engine.sendline(command): the terminal echoes it and the engine answers
Send ==
    /\ run.pc = "send"
    /\ LET cmd == Head(run.todo)
       IN \E resp \in StepResponses(dialect, run.op, cmd, run.lvars) :
            /\ stream' = stream \o <<Echo(cmd)>> \o resp
            /\ run' = [run EXCEPT !.todo = Tail(@), !.sent = Append(@, cmd),
                                  !.resps = Append(@, resp),
                                  !.log = Append(@, "send"),
                                  !.pending = @ + 1,
                                  !.pc = PcAfterSend(Tail(run.todo))]
    /\ UNCHANGED <<dialect, lineEnd, hashOrder, before, after, call, prev, nops, calc>>

\* engine.expect(patterns) and what the method does with its result
Wait ==
    /\ run.pc = "wait"
    /\ \E r \in Expects(stream, StepPats(dialect, run.op, run.lvars, run.sent = <<>>)) :
         LET out == WaitOutcome(dialect, r)
         IN /\ stream' = r.rest
            /\ before' = r.before
            /\ after' = r.after
            /\ run' = [run EXCEPT !.caps = Append(@, [idx |-> r.idx, before |-> r.before]),
                                  !.log = Append(@, "wait"),
                                  !.pending = IF @ > 0 THEN @ - 1 ELSE 0,
                                  !.out = out,
                                  !.pc = PcAfterWait(run.op, out, run.todo)]
    /\ UNCHANGED <<dialect, lineEnd, hashOrder, call, prev, nops, calc>>

\* a public method is entered with its arguments
Begin(op, arg, lvars, todo, out) ==
    /\ run.pc = "ready"
    /\ nops < MaxOps
    /\ run' = [NoRun EXCEPT !.pc = IF todo = <<>> THEN "ready" ELSE "send",
                            !.op = op, !.arg = arg, !.lvars = lvars, !.todo = todo,
                            !.pending = run.pending, !.out = out]
    /\ nops' = nops + 1
    /\ UNCHANGED <<dialect, lineEnd, hashOrder, stream, before, after, call, prev, calc>>

BeginLoad ==
    \E module \in Modules :
        Begin("load", module, <<>>, <<LoadCmd(dialect, module)>>, Returns)

\* query(): the text is normalized and its variables extracted before
\* anything is sent; a blank text raises IndexError there
BeginQuery ==
    \E text \in StepQueries(dialect) :
        IF Strip(text) = <<>>
        THEN Begin("query", text, <<>>, <<>>, Raises("IndexError", <<>>))
        ELSE LET query == Normalize(text)
                 lvars == ExtractVariables(dialect, query, hashOrder)
             IN Begin("query", text, lvars, <<QueryCmd(dialect, query, lvars)>>, Returns)

\* flora2.addfacts(facts): one round per fact
BeginAddfacts ==
    /\ dialect = "flora2"
    /\ \E facts \in FactLists :
         Begin("addfacts", facts, <<>>, [i \in 1..Len(facts) |-> InsertCmd(facts[i])],
               Returns)

\* des.connect(dsn, username, password)
BeginConnect ==
    /\ dialect = "des"
    /\ \E username \in Credentials, password \in Credentials :
         Begin("connect", <<"db">>, <<>>, <<ConnectCmd(<<"db">>, username, password)>>,
               Returns)

\* des.command(cmd, args)
BeginCommand ==
    /\ dialect = "des"
    /\ \E args \in CommandArgs :
         Begin("command", <<"/listing">> \o <<" ">> \o args, <<>>,
               <<CommandCmd(<<"/listing">>, args)>>, Returns)

StepNext ==
    \/ Spawn \/ Send \/ Wait
    \/ BeginLoad \/ BeginQuery \/ BeginAddfacts \/ BeginConnect \/ BeginCommand

\* a method that was entered runs on: its sendline() is made and its expect()
\* ends, by a match or by the timeout of the session
StepSpec ==
    StepInit /\ [][StepNext]_vars /\ WF_vars(Spawn \/ Send \/ Wait)

\* ======================================================== the claims
IsRec(it) == it.t = "rec"
IsTuple(it) == it.t = "tuple"
IsErrorText(it) == it.t \in {"error", "terror"}
HasError(s) == \E i \in 1..Len(s) : IsErrorText(s[i])
EndsWithPrompt(s) == s # <<>> /\ s[Len(s)].t \in {"prompt", "tprompt"}

\* the last call is a query that got as far as sending its command
IsQuery == call.op = "query" /\ call.sent # <<>>
\* the wait of the last call ended by a match
Matched == call.idx >= 0
AfterError == prev.kind \in {"QueryError", "CompileError"}

\* the names of the variable list without the flora2 sigil
PlainNames(lvars) == {StripSigil(lvars[i]) : i \in 1..Len(lvars)}

\* the engine's response to the command of the last call is n >= 1 complete
\* solutions and a prompt, with no error text
Solutions(n) ==
    /\ IsQuery /\ call.lvars # <<>> /\ n >= 1
    /\ ~HasError(call.resp) /\ EndsWithPrompt(call.resp)
    /\ IF dialect = "des"
       THEN /\ Len(SelectSeq(call.resp, IsTuple)) = n
            /\ \A i \in 1..Len(call.resp) :
                 call.resp[i].t = "tuple" => Len(call.resp[i].vals) >= Len(call.lvars)
       ELSE Len(SelectSeq(call.resp, IsRec)) = n * Len(call.lvars)

\* the mapping of the i-th solution the engine wrote (tagged dialects)
Emitted(i) ==
    LET recs == SelectSeq(call.resp, IsRec)
        k == Len(call.lvars)
    IN [nm \in {recs[j].name : j \in ((i - 1) * k + 1)..(i * k)} |->
          recs[CHOOSE j \in ((i - 1) * k + 1)..(i * k) : recs[j].name = nm].vals[1]]

\* C1: a query with no extracted variable never returns a list of solutions,
\* and when its wait ends by a match (prompt or error text) it returns a
\* boolean or raises QueryError, whatever the captured text holds
C1_YesNoGivesBoolean ==
    (IsQuery /\ call.lvars = <<>>) =>
        /\ call.out.kind # "list"
        /\ Matched => call.out.kind \in {"bool", "QueryError"}

\* C1 witness: a zero-variable query answered with a boolean although the
\* captured text holds result records
C1_Witness ==
    /\ IsQuery /\ call.lvars = <<>> /\ call.out.kind = "bool"
    /\ Results(before) > 0

\* C2 as claimed: N >= 1 solutions written and no error give a list of
\* exactly N mappings, the i-th built from the i-th solution written
C2_NSolutionsGiveNMappings ==
    \A n \in 1..MaxRecs :
        Solutions(n) =>
            /\ call.out.kind = "list"
            /\ Len(call.out.sols) = n
            /\ dialect # "des" => \A i \in 1..n : call.out.sols[i] = Emitted(i)

\* C3 as claimed, the flora2 sigil set aside: every mapping returned has the
\* extracted variable names as its keys, none missing and none extra
C3_KeysAreTheVariables ==
    (IsQuery /\ call.out.kind = "list"
       /\ \A i \in 1..Len(call.resp) :
            call.resp[i].t = "tuple" => Len(call.resp[i].vals) >= Len(call.lvars)) =>
        \A i \in 1..Len(call.out.sols) :
            DOMAIN call.out.sols[i] = PlainNames(call.lvars)

\* what the dialect's variable pattern finds in the normalized text of the
\* last query, in text order
Found ==
    IF dialect = "flora2" THEN FvarFindall(Normalize(call.arg))
    ELSE VarFindall(Normalize(call.arg))

NoRepeats(l) == \A i, j \in 1..Len(l) : l[i] = l[j] => i = j

C5_NextCallReadsItsOwnResponse ==
    (AfterError /\ call.sent # <<>> /\ Matched) => call.start > call.stale

\* C6 as claimed: the same load twice in a row, answered with the same
\* output, is classified the same way both times
C6_SameLoadSameClass ==
    (call.op = "load" /\ prev.op = "load" /\ prev.arg = call.arg
       /\ prev.resp = call.resp) =>
        call.out.kind = prev.kind

\* C7 as claimed: a load whose response holds the dialect's error text
\* raises CompileError with a non-empty fragment
C7_LoadErrorRaises ==
    (call.op = "load" /\ HasError(call.resp)) =>
        call.out.kind = "CompileError" /\ call.out.frag # <<>>

\* C8 as claimed: a query whose response holds the dialect's error text
\* before the prompt raises QueryError with the matched fragment
C8_QueryErrorRaises ==
    (IsQuery /\ HasError(call.resp)) =>
        call.out.kind = "QueryError" /\ call.out.frag # <<>>

\* C9 as claimed: after a call that ended by timeout, every later call is
\* rejected and sends nothing
C9_FaultedAfterTimeout ==
    (prev.kind = "TIMEOUT" /\ call.op # "init") =>
        call.sent = <<>> /\ call.out.kind = "Rejected"

\* the result records the variable path of xsb, swipl and eclipse reads
Captured == Len(Findall(AfterLastMarker(before, lineEnd)))

\* a query with variables whose wait ended at the prompt, without error
AnsweredVarQuery ==
    /\ IsQuery /\ call.lvars # <<>> /\ Matched
    /\ call.out.kind # "QueryError"

Group(i) == SubSeq(calc.res, calc.k * (i - 1) + 1, calc.k * i)

\* the mapping the records g give: every name of g, bound to the value of
\* the last record of g that carries the name
MappingOf(g, mp) ==
    /\ DOMAIN mp = {g[j][1] : j \in 1..Len(g)}
    /\ \A j \in 1..Len(g) :
         (\A l \in (j + 1)..Len(g) : g[l][1] # g[j][1]) => mp[g[j][1]] = g[j][2]

\* C11: k*m flat records regroup into exactly m solutions, the i-th built
\* from exactly the records of the i-th group of k, in emission order
C11_RegroupsByK ==
    (calc.fn = "regroup" /\ Len(calc.res) % calc.k = 0) =>
        /\ Len(calc.out) * calc.k = Len(calc.res)
        /\ \A i \in 1..Len(calc.out) : MappingOf(Group(i), calc.out[i])

\* C11 witness: 2 variables and 6 records give 3 solutions
C11_Witness ==
    /\ calc.fn = "regroup" /\ calc.k = 2 /\ Len(calc.res) = 6 /\ Len(calc.out) = 3
    /\ calc.out[1] # calc.out[2]

\* C12 as claimed: when the number of records is not a multiple of k the
\* parse does not give the solutions of the complete groups alone
C12_PartialGroupFails ==
    (calc.fn = "regroup" /\ Len(calc.res) % calc.k # 0) =>
        Len(calc.out) # Len(calc.res) \div calc.k

\* where the i-th print directive starts in the text of the last _printer:
\* after the query without its terminator and a ',', every directive being
\* five pieces (opening, name, middle, name, closing) and a ',' apart
DirectiveAt(i) == Len(calc.text) + 1 + 6 * (i - 1)

\* C20: the compiled command is the query without its final '.', then ',',
\* then exactly k print directives joined by ',' in the order of the variable
\* list, the i-th naming and printing vi, then ',nl,fail.'; no other
\* terminator follows the query
C20_PrinterStructure ==
    calc.fn = "printer" =>
        LET q == calc.text
            out == calc.out
            n == Len(q) - 1
        IN /\ q[Len(q)] = "."
           /\ Len(out) = n + 6 * calc.k + 1
           /\ SubSeq(out, 1, n) = SubSeq(q, 1, n)
           /\ out[n + 1] = ","
           /\ \A i \in 1..calc.k :
                /\ <<out[DirectiveAt(i)], out[DirectiveAt(i) + 2], out[DirectiveAt(i) + 4]>>
                     \in {<<"writeln( res('''", "''',", ") )">>,
                          <<"writeln( res('\\'", "\\'',", ") )">>}
                /\ <<out[DirectiveAt(i) + 1]>> = calc.names[i]
                /\ <<out[DirectiveAt(i) + 3]>> = calc.names[i]
                /\ out[DirectiveAt(i) + 5] = IF i < calc.k THEN "," ELSE ",nl,fail."
           /\ \A j \in (n + 1)..(Len(out) - 1) : out[j] \notin {".", ",nl,fail."}

\* C20 witness: a command compiled for three variables, the first two
\* different
C20_Witness ==
    /\ calc.fn = "printer" /\ calc.k = 3 /\ calc.names[1] # calc.names[2]
    /\ calc.out[Len(calc.out)] = ",nl,fail."

\* the engine answered the last query with the token t and its prompt
AnsweredWith(t) == call.resp = <<Tok(t)>> \o EndOk

\* the token the engine prints for a fact that is present, and for one that
\* is absent
Affirmative(d) == IF d = "des" THEN OtherToken(d) ELSE AnswerToken(d)
Negative(d) == IF d = "des" THEN AnswerToken(d) ELSE OtherToken(d)

\* C14 as claimed: a zero-variable query returns True exactly when the
\* engine answered it affirmatively and False exactly when it answered
\* negatively, whatever the query text
C14_AnswerDecidesResult ==
    (IsQuery /\ call.lvars = <<>>) =>
        /\ AnsweredWith(Affirmative(dialect)) => call.out = Bool(TRUE)
        /\ AnsweredWith(Negative(dialect)) => call.out = Bool(FALSE)

\* the method op has ended (step-level view)
Ended(op) == run.op = op /\ run.pc \in {"ready", "dead"}
PublicOps == {"load", "query", "connect", "command", "addfacts"}

\* n rounds of one send and one wait
Rounds(n) == [i \in 1..(2 * n) |-> IF i % 2 = 1 THEN "send" ELSE "wait"]

\* the engine's response to the i-th command of the running method holds
\* 'Yes' and no error text
Accepted(i) ==
    /\ ~HasError(run.resps[i])
    /\ \E j \in 1..Len(run.resps[i]) : run.resps[i][j] = Tok(<<"Yes">>)

\* C13 as claimed: addfacts sends one insert per fact in list order, each
\* after the wait for the one before; it raises Flora2FactError at the first
\* fact whose response holds the error text or lacks 'Yes' and sends nothing
\* more; it returns after len(facts) sends when every fact was accepted
C13_AddfactsStopsAtFirstRejected ==
    (Ended("addfacts") /\ run.out.kind \in {"none", "FactError"}) =>
        LET n == Len(run.sent)
        IN /\ n <= Len(run.arg)
           /\ \A i \in 1..n : run.sent[i] = InsertCmd(run.arg[i])
           /\ run.log = Rounds(n)
           /\ \A i \in 1..(n - 1) : Accepted(i)
           /\ run.out.kind = "FactError" => n >= 1 /\ ~Accepted(n)
           /\ run.out.kind = "none" => n = Len(run.arg) /\ (n >= 1 => Accepted(n))

\* C15 as claimed: a constructor ends with the driver ready, or with the
\* dialect's ExecutableNotFound, never with another error
C15_ReadyOrNotFound ==
    Ended("init") =>
        \/ run.pc = "ready" /\ run.out.kind = "none"
        \/ run.pc = "dead" /\ run.out.kind = "ExecutableNotFound"

\* C16 as claimed: every public method makes exactly one send followed by
\* exactly one wait
C16_OneSendOneWait ==
    (run.op \in PublicOps /\ run.pc = "ready") => run.log = Rounds(1)

\* C16 amended: load, connect, command and a query of a text that is not
\* blank make exactly one send followed by one wait; a query of a blank text
\* makes none; addfacts makes one round per fact up to the first fact that
\* raises, len(facts) rounds when it returns, none for an empty list
C16_RoundsPerMethod ==
    (run.op \in PublicOps /\ run.pc = "ready") =>
        CASE run.op = "addfacts" ->
               /\ \E n \in 0..Len(run.arg) : run.log = Rounds(n)
               /\ run.out.kind = "none" => run.log = Rounds(Len(run.arg))
          [] run.op = "query" /\ Strip(run.arg) = <<>> -> run.log = <<>>
          [] OTHER -> run.log = Rounds(1)

\* C16 witness: addfacts of two facts returned after two rounds
C16_Witness ==
    /\ Ended("addfacts") /\ Len(run.arg) = 2 /\ run.out.kind = "none"
    /\ run.log = Rounds(2)

\* C17 as claimed: command sends cmd + ' ' + args once; on a match of either
\* prompt it returns exactly the captured text, on a match of the error
\* text it raises DESCompileError
C17_CommandReturnsCapture ==
    Ended("command") =>
        /\ run.sent = <<Cmd("command", run.arg, <<>>)>>
        /\ run.caps[1].idx \in {0, 1} =>
              run.out = Outcome("text", FALSE, <<>>, run.caps[1].before)
        /\ run.caps[1].idx = 2 => run.out.kind = "CompileError"

\* C17 amended: command sends cmd + ' ' + args once; on a match of either
\* prompt it returns the captured bytes decoded as UTF-8, the same text
\* unparsed, and raises UnicodeDecodeError when they are not UTF-8; on a
\* match of the error text it raises DESCompileError
C17_CommandDecodesCapture ==
    Ended("command") =>
        /\ run.sent = <<Cmd("command", run.arg, <<>>)>>
        /\ run.caps[1].idx \in {0, 1} =>
              IF ValidUtf8(run.caps[1].before)
              THEN run.out = Outcome("text", FALSE, <<>>, run.caps[1].before)
              ELSE run.out.kind = "UnicodeDecodeError"
        /\ run.caps[1].idx = 2 => run.out.kind = "CompileError" /\ run.out.frag # <<>>

\* C17 witness: a command whose wait matched the TAPI prompt returned the
\* echoed command and the text after it
C17_Witness ==
    /\ Ended("command") /\ run.caps[1].idx = 1 /\ run.out.kind = "text"
    /\ Len(run.out.frag) >= 2

\* C18: at most one command sent on the session is not yet waited for: a
\* send is made only when none is, a wait follows every send before the next
\* send, and nothing is pending between calls
C18_SendsAndWaitsAlternate ==
    /\ run.pending \in {0, 1}
    /\ run.pc \in {"send", "ready", "dead"} => run.pending = 0
    /\ (run.pc = "wait" /\ run.sent # <<>>) => run.pending = 1
    /\ \A i \in 1..(Len(run.log) - 1) : run.log[i] # run.log[i + 1]

\* C18 witness: the second insert of addfacts is sent and not yet waited for
C18_Witness ==
    /\ run.op = "addfacts" /\ Len(run.sent) = 2 /\ run.pc = "wait"
    /\ run.pending = 1

\* C19: every method entered ends, whatever the engine writes; no method
\* sends more commands than it has (one; one per fact for addfacts; the
\* expert command for the constructor) and none waits more than once per
\* send (the constructor once more, for the first prompt)
C19_EveryCallEnds ==
    /\ (run.pc \notin {"ready", "dead"}) ~> (run.pc \in {"ready", "dead"})
    /\ [](/\ Len(run.sent) <= (IF run.op = "addfacts" THEN Len(run.arg) ELSE 1)
          /\ Len(run.caps) <= Len(run.sent) + (IF run.op = "init" THEN 1 ELSE 0))

\* C19 witness: a load ended by the timeout, the engine having written no
\* prompt
C19_Witness ==
    /\ Ended("load") /\ run.out.kind = "TIMEOUT" /\ run.resps = <<(<<>>)>>

\* C21 as claimed: in a variable query of xsb, swipl or eclipse whose wait
\* ended at the prompt, the solutions are made of the records that follow
\* the last echoed compiled query in the capture, and of nothing before or
\* inside it, whether a bare line feed or a carriage return and a line feed
\* follows the echoed marker
C21_OnlyRecordsAfterTheMarker ==
    (IsQuery /\ dialect \in TagDialects /\ call.lvars # <<>> /\ call.idx = 1) =>
        LET at == {i \in 1..Len(before) :
                     before[i].t = "echo" /\ before[i].cmd.kind = "printer"}
            tail == IF at = {} THEN before
                    ELSE SubSeq(before, MaxOf(at) + 1, Len(before))
            results == Regroup(Findall(tail), Len(call.lvars))
        IN call.out = IF results = <<>> THEN Bool(FALSE) ELSE List(results)

\* C22 as claimed: every non-empty text normalizes to a text without leading
\* or trailing whitespace that ends with exactly one '.', and normalizing
\* that text again changes nothing
C22_ExactlyOneTerminator ==
    calc.fn = "normalize" =>
        LET out == calc.out
        IN /\ out # <<>>
           /\ out[1] \notin White /\ out[Len(out)] = "."
           /\ Len(out) >= 2 => out[Len(out) - 1] # "."
           /\ calc.res = out

\* C22 amended: a text that is not empty after the strip normalizes to a text
\* without leading or trailing whitespace that ends with '.': the stripped
\* text itself when it already ends with '.', whatever precedes that '.',
\* and the stripped text with one '.' appended otherwise; normalizing the
\* result again changes nothing.  A text that is empty after the strip has
\* no normalized text
C22_NormalizeAppendsWhenMissing ==
    calc.fn = "normalize" =>
        LET s == Strip(calc.text)
            out == calc.out
        IN IF s = <<>> THEN out = <<>>
           ELSE /\ out[1] \notin White /\ out[Len(out)] = "."
                /\ out = IF s[Len(s)] = "." THEN s ELSE s \o <<".">>
                /\ SubSeq(out, 1, Len(s)) = s
                /\ calc.res = out

\* C22 witness: a text with a blank on both sides and no terminator is
\* normalized to the letter and one '.'
C22_Witness ==
    /\ calc.fn = "normalize" /\ calc.text = <<" ", "p", " ">>
    /\ calc.out = <<"p", ".">> /\ calc.res = calc.out

C24_ValuesAreAsEmitted ==
    (IsQuery /\ call.out.kind = "list") =>
        \A j \in 1..Len(call.out.sols) : \A n \in DOMAIN call.out.sols[j] :
            \E i \in 1..Len(before) :
                /\ before[i].t \in {"rec", "tuple"}
                /\ \E v \in 1..Len(before[i].vals) :
                     call.out.sols[j][n] = before[i].vals[v]

\* C25: a query() whose text is empty or holds only whitespace sends no
\* command, leaves the unread output, engine.before and engine.after and the
\* driver as they were, and fails with IndexError, not with the QueryError of
\* the dialect
C25_BlankQueryChangesNothing ==
    [][(nops' = nops + 1 /\ call'.op = "query" /\ Strip(call'.arg) = <<>>) =>
          /\ call'.sent = <<>>
          /\ call'.out = Raises("IndexError", <<>>)
          /\ stream' = stream /\ before' = before /\ after' = after
          /\ dialect' = dialect /\ lineEnd' = lineEnd /\ hashOrder' = hashOrder]_vars

\* C25 witness: a whitespace-only query made while output of an earlier call
\* is still unread has failed with IndexError and sent nothing
C25_Witness ==
    /\ call.op = "query" /\ call.arg = Blank /\ call.sent = <<>>
    /\ call.out.kind = "IndexError"
    /\ stream # <<>> /\ call.stale = Len(stream)

============================================================================
